---- MODULE Spec2Model ----
(***************************************************************************)
(* A model of openclaw-plugin-sentry (src/index.ts): the service returned   *)
(* by createSentryService (start / stop and the two handlers it registers   *)
(* with the host), and the translators handleDiagnosticEvent,               *)
(* recordModelUsage, recordMessageProcessed and forwardLog.                 *)
(*                                                                         *)
(* An optional value (a field that may be undefined) is a sequence of       *)
(* length 0 (absent) or 1 (present): <<>> or <<v>>.                         *)
(***************************************************************************)
EXTENDS Integers, Sequences, FiniteSets, TLC

\* ---------------------------------------------------------------- bounds
MaxStarts == 2          \* start() calls in one behaviour
MaxStops == 2           \* stop() calls in one behaviour
MaxDeliveries == 2      \* events and records the host emits in one behaviour
MaxFailAt == 4
MaxProps == 2          \* the backend call that throws is one of the first MaxFailAt

\* ------------------------------------------------------ program constants
FlushTimeoutMs == 5000
DefaultModelUsageDurationMs == 100
DefaultMessageDurationMs == 50
SpanStatusError == 2

\* ------------------------------------------------------- optional values
Absent == <<>>
Some(v) == <<v>>
\* a ?? d
OrElse(o, d) == IF o = <<>> THEN d ELSE o[1]

VARIABLES
  unsubDiag,      \* the closure's unsubDiag: 0 (null) or a subscription handle
  unsubLogs,      \* the closure's unsubLogs: 0 (null) or a subscription handle
  diagListeners,  \* handles subscribed on the host's diagnostic-event source
  logListeners,   \* handles subscribed on the host's log-record source
  unsubCalls,     \* unsubCalls[h]: how often handle h's unsubscribe function ran
  startCalls,     \* start() calls made so far
  initCalls,      \* Sentry.init calls made so far
  flushCalls,     \* timeout arguments of the Sentry.flush calls, in order
  pendingStops,   \* stop() calls suspended at `await Sentry.flush(...)`
  stopResults,    \* how each finished stop() ended: "returned" or "threw"
  startedSinceStop, \* start() was called since stop() was last called
  lastOp,         \* the operation that ran last, and the calls it made, in order
  delivered,      \* diagnostic events and log records the host has emitted
  lastDelivery,   \* if the last operation was an emission: what each listener did
  tIn,            \* translator harness: the input under translation
  tOut            \* translator harness: the result of translating tIn

lifecycleVars == <<unsubDiag, unsubLogs, diagListeners, logListeners, unsubCalls,
                   startCalls, initCalls, flushCalls, pendingStops,
                   stopResults, startedSinceStop, lastOp>>
deliveryVars == <<delivered, lastDelivery>>
harnessVars == <<tIn, tOut>>
vars == <<lifecycleVars, deliveryVars, harnessVars>>

\* ------------------------------------------------------ JS value helpers
\* JS truthiness of an optional string: undefined and "" are falsy
Truthy(o) == o # <<>> /\ o[1] # ""

Digit(d) == <<"0", "1", "2", "3", "4", "5", "6", "7", "8", "9">>[d + 1]

RECURSIVE NatToString(_)
NatToString(n) == IF n < 10 THEN Digit(n) ELSE NatToString(n \div 10) \o Digit(n % 10)

\* String(n) for an integer n
NumberToString(n) == IF n < 0 THEN "-" \o NatToString(0 - n) ELSE NatToString(n)

\* `${o}` for an optional string: undefined renders as "undefined"
TemplateString(o) == IF o = <<>> THEN "undefined" ELSE o[1]

\* `${o}` for an optional number
TemplateNumber(o) == IF o = <<>> THEN "undefined" ELSE NumberToString(o[1])

\* ------------------------------------------------------ the backend
(* A backend behaviour says what Sentry does during one handler invocation: *)
(* spanOk, whether startInactiveSpan returns a span handle, and failAt, the  *)
(* index of the backend call that throws (0: none throws).                  *)
Behaviour(spanOk, failAt) == [spanOk |-> spanOk, failAt |-> failAt]

\* Run the planned backend calls until the one that throws.
Perform(plan, b) ==
  IF b.failAt \in 1..Len(plan)
  THEN [calls |-> SubSeq(plan, 1, b.failAt - 1), threw |-> TRUE]
  ELSE [calls |-> plan, threw |-> FALSE]

\* ------------------------------------------- model.usage -> ai.chat span
ModelUsageDurationMs(evt) == OrElse(evt.durationMs, DefaultModelUsageDurationMs)

ModelUsageSpanName(evt) ==
  IF Truthy(evt.model) THEN "chat " \o evt.model[1] ELSE "chat unknown"

\* the attributes with an absent total made up from the input and output counts
ModelUsageAttributesDerivedTotal(evt) ==
     "gen_ai.operation.name"       :> "chat"
  @@ "gen_ai.system"               :> OrElse(evt.provider, "unknown")
  @@ "gen_ai.request.model"        :> OrElse(evt.model, "unknown")
  @@ "gen_ai.usage.input_tokens"   :> OrElse(evt.usage[1].input, 0)
  @@ "gen_ai.usage.output_tokens"  :> OrElse(evt.usage[1].output, 0)
  @@ "openclaw.channel"            :> OrElse(evt.channel, "unknown")
  @@ "openclaw.session_key"        :> OrElse(evt.sessionKey, "unknown")
  @@ "openclaw.tokens.cache_read"  :> OrElse(evt.usage[1].cacheRead, 0)
  @@ "openclaw.tokens.cache_write" :> OrElse(evt.usage[1].cacheWrite, 0)
  @@ "openclaw.tokens.total"       :> OrElse(evt.usage[1].total,
                                             OrElse(evt.usage[1].input, 0)
                                             + OrElse(evt.usage[1].output, 0))
  @@ "openclaw.cost_usd"           :> OrElse(evt.costUsd, 0)
  @@ "openclaw.duration_ms"        :> ModelUsageDurationMs(evt)

ModelUsageAttributes(evt) ==
     "gen_ai.operation.name"       :> "chat"
  @@ "gen_ai.system"               :> OrElse(evt.provider, "unknown")
  @@ "gen_ai.request.model"        :> OrElse(evt.model, "unknown")
  @@ "gen_ai.usage.input_tokens"   :> OrElse(evt.usage[1].input, 0)
  @@ "gen_ai.usage.output_tokens"  :> OrElse(evt.usage[1].output, 0)
  @@ "openclaw.channel"            :> OrElse(evt.channel, "unknown")
  @@ "openclaw.session_key"        :> OrElse(evt.sessionKey, "unknown")
  @@ "openclaw.tokens.cache_read"  :> OrElse(evt.usage[1].cacheRead, 0)
  @@ "openclaw.tokens.cache_write" :> OrElse(evt.usage[1].cacheWrite, 0)
  @@ "openclaw.tokens.total"       :> OrElse(evt.usage[1].total, 0)
  @@ "openclaw.cost_usd"           :> OrElse(evt.costUsd, 0)
  @@ "openclaw.duration_ms"        :> ModelUsageDurationMs(evt)

SpanEnd(endTimeMs) == [fn |-> "span.end", endTime |-> endTimeMs]

recordModelUsage(evt, b) ==
  LET endTimeMs == evt.ts
      durationMs == ModelUsageDurationMs(evt)
      startTimeMs == endTimeMs - durationMs
  IN  IF evt.usage = <<>>
      THEN \* evt.usage.input on an undefined usage: a TypeError before any call
           [calls |-> <<>>, threw |-> TRUE]
      ELSE LET start == [fn |-> "startInactiveSpan",
                         op |-> "ai.chat",
                         name |-> ModelUsageSpanName(evt),
                         startTime |-> startTimeMs,
                         forceTransaction |-> TRUE,
                         attributes |-> ModelUsageAttributes(evt)]
           IN  Perform(<<start>> \o (IF b.spanOk THEN <<SpanEnd(endTimeMs)>> ELSE <<>>), b)

\* ------------------------------ message.processed -> openclaw.message span
\* evt.durationMs || 50: a duration of 0 replaced by the default as well
MessageDurationMsFalsy(evt) ==
  IF evt.durationMs = <<>> \/ evt.durationMs = <<0>>
  THEN DefaultMessageDurationMs ELSE evt.durationMs[1]

MessageDurationMs(evt) == OrElse(evt.durationMs, DefaultMessageDurationMs)

MessageAttributes(evt) ==
     "openclaw.channel"     :> evt.channel
  @@ "openclaw.outcome"     :> evt.outcome
  @@ "openclaw.session_key" :> OrElse(evt.sessionKey, "unknown")
  @@ "openclaw.chat_id"     :> (IF evt.chatId = <<>> THEN "" ELSE NumberToString(evt.chatId[1]))
  @@ "openclaw.message_id"  :> OrElse(evt.messageId, "")
  @@ "openclaw.duration_ms" :> MessageDurationMs(evt)

\* span.setStatus({ code: 2, message: evt.error ?? "unknown error" })
MessageStatus(evt) ==
  [fn |-> "span.setStatus", code |-> SpanStatusError,
   message |-> OrElse(evt.error, "unknown error")]

\* the capture made for every error outcome, with the status text
MessageErrorCaptureAlways(evt) ==
  <<[fn |-> "captureMessage",
     text |-> "Message processing error: " \o OrElse(evt.error, "unknown error"),
     level |-> "error",
     tags |-> [channel |-> Some(evt.channel), sessionKey |-> evt.sessionKey]]>>

\* if (evt.error) Sentry.captureMessage(...)
MessageErrorCapture(evt) ==
  IF Truthy(evt.error)
  THEN <<[fn |-> "captureMessage",
          text |-> "Message processing error: " \o evt.error[1],
          level |-> "error",
          tags |-> [channel |-> Some(evt.channel), sessionKey |-> evt.sessionKey]]>>
  ELSE <<>>

\* the body of `if (span) { ... }` without the capture
MessageSpanCallsNoCapture(evt) ==
  (IF evt.outcome = "error" THEN <<MessageStatus(evt)>> ELSE <<>>) \o <<SpanEnd(evt.ts)>>

\* the body of `if (span) { ... }`
MessageSpanCalls(evt) ==
  (IF evt.outcome = "error" THEN <<MessageStatus(evt)>> \o MessageErrorCapture(evt) ELSE <<>>)
  \o <<SpanEnd(evt.ts)>>

recordMessageProcessed(evt, b) ==
  LET endTimeMs == evt.ts
      durationMs == MessageDurationMs(evt)
      startTimeMs == endTimeMs - durationMs
      start == [fn |-> "startInactiveSpan",
                op |-> "openclaw.message",
                name |-> "message." \o evt.outcome,
                startTime |-> startTimeMs,
                forceTransaction |-> TRUE,
                attributes |-> MessageAttributes(evt)]
  IN  Perform(<<start>> \o (IF b.spanOk THEN MessageSpanCalls(evt) ELSE <<>>), b)

\* ------------------------------------------------ diagnostic dispatch
WebhookErrorCapture(evt) ==
  [fn |-> "captureMessage",
   text |-> "Webhook error: " \o TemplateString(evt.error),
   level |-> "error",
   tags |-> [channel |-> evt.channel, updateType |-> evt.updateType]]

SessionStuckCapture(evt) ==
  [fn |-> "captureMessage",
   text |-> "Session stuck: " \o TemplateString(evt.sessionKey)
            \o " (" \o TemplateNumber(evt.ageMs) \o "ms)",
   level |-> "warning",
   tags |-> [sessionKey |-> evt.sessionKey, state |-> evt.state]]

\* the dispatch with a default case that throws on a type it does not know
handleDiagnosticEventStrict(evt, b) ==
  CASE evt.type = "model.usage" -> recordModelUsage(evt, b)
    [] evt.type = "message.processed" -> recordMessageProcessed(evt, b)
    [] evt.type = "webhook.error" -> Perform(<<WebhookErrorCapture(evt)>>, b)
    [] evt.type = "session.stuck" -> Perform(<<SessionStuckCapture(evt)>>, b)
    [] OTHER -> [calls |-> <<>>, threw |-> TRUE]

handleDiagnosticEvent(evt, b) ==
  CASE evt.type = "model.usage" -> recordModelUsage(evt, b)
    [] evt.type = "message.processed" -> recordMessageProcessed(evt, b)
    [] evt.type = "webhook.error" -> Perform(<<WebhookErrorCapture(evt)>>, b)
    [] evt.type = "session.stuck" -> Perform(<<SessionStuckCapture(evt)>>, b)
    [] OTHER -> [calls |-> <<>>, threw |-> FALSE]


\* ------------------------------------------- log records -> structured logs
(* A log record is the sequence of its own properties in insertion order,   *)
(* each [key, value], plus its optional _meta. A key and a level name are   *)
(* sequences of one-character strings, so that /^\d+$/, Number(key) and      *)
(* toLowerCase are computed and not assumed. A value is a record with a      *)
(* type: "string" (s), "number" (n), "object", "circular", "undefined".      *)
DigitChars == <<"0", "1", "2", "3", "4", "5", "6", "7", "8", "9">>
UpperChars == <<"A", "B", "C", "D", "E", "F", "G", "I", "L", "N", "O", "R", "T", "U", "W">>
LowerChars == <<"a", "b", "c", "d", "e", "f", "g", "i", "l", "n", "o", "r", "t", "u", "w">>

IndexOf(c, chars) == IF \E i \in 1..Len(chars) : chars[i] = c
                     THEN CHOOSE i \in 1..Len(chars) : chars[i] = c
                     ELSE 0

\* String.prototype.toLowerCase, over the letters of UpperChars
ToLowerCase(str) ==
  [i \in 1..Len(str) |-> IF IndexOf(str[i], UpperChars) # 0
                         THEN LowerChars[IndexOf(str[i], UpperChars)]
                         ELSE str[i]]

\* /^\d+$/.test(key)
IsAllDigits(key) == Len(key) >= 1 /\ \A i \in 1..Len(key) : IndexOf(key[i], DigitChars) # 0

\* Number(key) for an all-digits key
RECURSIVE KeyNumber(_)
KeyNumber(key) ==
  IF Len(key) = 0 THEN 0
  ELSE 10 * KeyNumber(SubSeq(key, 1, Len(key) - 1)) + (IndexOf(key[Len(key)], DigitChars) - 1)

\* a canonical array index: all digits, no leading zero ("0" itself is one)
IsIndexKey(key) == IsAllDigits(key) /\ (Len(key) = 1 \/ key[1] # "0")

\* insert e into the sorted sequence seq after every element that is <= e
RECURSIVE InsertByNumber(_, _)
InsertByNumber(seq, e) ==
  IF seq = <<>> THEN <<e>>
  ELSE IF KeyNumber(e.key) < KeyNumber(Head(seq).key)
       THEN <<e>> \o seq
       ELSE <<Head(seq)>> \o InsertByNumber(Tail(seq), e)

\* the entries left in the order they come in
SortByNumberInsertionOrder(seq) == seq

\* Array.prototype.sort((a, b) => Number(a[0]) - Number(b[0])): a stable sort
RECURSIVE SortByNumber(_)
SortByNumber(seq) ==
  IF seq = <<>> THEN <<>>
  ELSE InsertByNumber(SortByNumber(SubSeq(seq, 1, Len(seq) - 1)), seq[Len(seq)])

\* Object.entries: array-index keys first in ascending order, then the
\* other string keys in insertion order
ObjectEntries(props) ==
  LET isIndex(e) == IsIndexKey(e.key)
      isOther(e) == ~IsIndexKey(e.key)
  IN  SortByNumber(SelectSeq(props, isIndex)) \o SelectSeq(props, isOther)

\* String(v)
ValueToString(v) ==
  CASE v.type = "string" -> v.s
    [] v.type = "number" -> NumberToString(v.n)
    [] v.type = "undefined" -> "undefined"
    [] OTHER -> "[object Object]"

\* JSON.stringify(v) of a non-string v: <<text>>, <<>> for undefined
JsonStringify(v) ==
  CASE v.type = "number" -> <<NumberToString(v.n)>>
    [] v.type = "undefined" -> <<>>
    [] OTHER -> <<"{}">>

\* typeof v === "string" ? v : JSON.stringify(v), as an optional string;
\* JSON.stringify throws a TypeError on a circular structure
MessageOf(v) == IF v.type = "string" THEN <<v.s>> ELSE JsonStringify(v)
MessageThrows(v) == v.type = "circular"

LogLevel(logObj) ==
  ToLowerCase(IF logObj.meta = <<>> THEN <<"I", "N", "F", "O">>
              ELSE OrElse(logObj.meta[1].logLevelName, <<"I", "N", "F", "O">>))

NumericEntries(logObj) ==
  LET isNumeric(e) == IsAllDigits(e.key)
  IN  SortByNumber(SelectSeq(ObjectEntries(logObj.props), isNumeric))

LogSubsystem(logObj) ==
  LET numericEntries == NumericEntries(logObj)
  IN  IF Len(numericEntries) >= 2 THEN ValueToString(numericEntries[1].value) ELSE ""

\* the value the message is taken from, if any
LogMessageSource(logObj) ==
  LET numericEntries == NumericEntries(logObj)
  IN  IF Len(numericEntries) >= 1 THEN <<numericEntries[Len(numericEntries)].value>> ELSE <<>>

\* the message without its "log" fallback
LogMessageEmptyFallback(logObj) ==
  LET src == LogMessageSource(logObj)
      message == IF src = <<>> THEN <<"">> ELSE MessageOf(src[1])
  IN  IF ~Truthy(message) THEN "" ELSE message[1]

LogMessage(logObj) ==
  LET src == LogMessageSource(logObj)
      message == IF src = <<>> THEN <<"">> ELSE MessageOf(src[1])
  IN  IF ~Truthy(message) THEN "log" ELSE message[1]

LoggerName(logObj) ==
  IF logObj.meta = <<>> THEN "openclaw" ELSE OrElse(logObj.meta[1].name, "openclaw")

LogAttrs(logObj) ==
  IF LogSubsystem(logObj) # ""
  THEN "openclaw.logger" :> LoggerName(logObj) @@ "openclaw.subsystem" :> LogSubsystem(logObj)
  ELSE "openclaw.logger" :> LoggerName(logObj)

\* the routing with fatal left to the default case
LogMethodFatalIsInfo(level) ==
  CASE level = <<"d", "e", "b", "u", "g">> -> "logger.debug"
    [] level = <<"t", "r", "a", "c", "e">> -> "logger.debug"
    [] level = <<"w", "a", "r", "n">> -> "logger.warn"
    [] level = <<"e", "r", "r", "o", "r">> -> "logger.error"
    [] OTHER -> "logger.info"

LogMethod(level) ==
  CASE level = <<"d", "e", "b", "u", "g">> -> "logger.debug"
    [] level = <<"t", "r", "a", "c", "e">> -> "logger.debug"
    [] level = <<"w", "a", "r", "n">> -> "logger.warn"
    [] level = <<"e", "r", "r", "o", "r">> -> "logger.error"
    [] level = <<"f", "a", "t", "a", "l">> -> "logger.error"
    [] OTHER -> "logger.info"

(* A log backend behaviour: hasLogger, whether Sentry.logger is there, and  *)
(* failAt as for Behaviour.                                                 *)
LogBehaviour(hasLogger, failAt) == [hasLogger |-> hasLogger, failAt |-> failAt]

forwardLog(logObj, b) ==
  LET src == LogMessageSource(logObj)
  IN  IF src # <<>> /\ MessageThrows(src[1])
      THEN [calls |-> <<>>, threw |-> TRUE]
      ELSE IF ~b.hasLogger
      THEN [calls |-> <<>>, threw |-> FALSE]
      ELSE Perform(<<[fn |-> LogMethod(LogLevel(logObj)),
                      message |-> LogMessage(logObj),
                      attrs |-> LogAttrs(logObj)]>>, b)


\* ------------------------------------------------------ the two handlers
(* What one invocation of a registered handler does: the backend calls it   *)
(* completed, whether translation faulted, whether the fault escaped to the *)
(* event source, and the ctx.logger calls it made.                          *)
\* the diagnostic handler without its try/catch
DiagHandlerNoCatch(evt, b) ==
  LET r == handleDiagnosticEvent(evt, b)
  IN  [calls |-> r.calls, faulted |-> r.threw, escaped |-> r.threw, logged |-> <<>>]

\* the diagnostic handler with a catch block that warns on the host logger
DiagHandlerWarns(evt, b) ==
  LET r == handleDiagnosticEvent(evt, b)
  IN  [calls |-> r.calls, faulted |-> r.threw, escaped |-> FALSE,
       logged |-> IF r.threw THEN <<"warn">> ELSE <<>>]

\* (evt) => { try { handleDiagnosticEvent(evt) } catch { } }
DiagHandler(evt, b) ==
  LET r == handleDiagnosticEvent(evt, b)
  IN  [calls |-> r.calls, faulted |-> r.threw, escaped |-> FALSE, logged |-> <<>>]

\* the log handler with a catch block that warns on the host logger
LogHandlerWarns(logObj, b) ==
  LET r == forwardLog(logObj, b)
  IN  [calls |-> r.calls, faulted |-> r.threw, escaped |-> FALSE,
       logged |-> IF r.threw THEN <<"warn">> ELSE <<>>]

\* (logObj) => { try { forwardLog(logObj) } catch { } }
LogHandler(logObj, b) ==
  LET r == forwardLog(logObj, b)
  IN  [calls |-> r.calls, faulted |-> r.threw, escaped |-> FALSE, logged |-> <<>>]

\* no emission: the last operation was none
NoDelivery == [source |-> "none", results |-> <<>>, afterFault |-> FALSE]

\* the delivery d was an emission on source in which a listener's translation faulted
Faulted(d, source) ==
  d.source = source /\ \E i \in DOMAIN d.results : d.results[i].faulted

\* ------------------------------------------------------ start
(* The plugin configuration start() reads: hasConfig is whether              *)
(* ctx.config.plugins?.entries?.sentry?.config exists at all.               *)
PluginCfg(hasConfig, dsn, environment, tracesSampleRate, enableLogs) ==
  [hasConfig |-> hasConfig, dsn |-> dsn, environment |-> environment,
   tracesSampleRate |-> tracesSampleRate, enableLogs |-> enableLogs]

\* pluginCfg?.dsn
ConfigDsn(cfg) == IF cfg.hasConfig THEN cfg.dsn ELSE <<>>

\* if (!dsn) { warn; return }
StartSkipsInit(cfg) == ~Truthy(ConfigDsn(cfg))

\* pluginCfg?.enableLogs !== false
\* logs enabled only by an explicit true
EnableLogsOnlyTrue(cfg) == cfg.enableLogs = <<TRUE>>

EnableLogs(cfg) == cfg.enableLogs # <<FALSE>>

InitOptions(cfg) ==
  [dsn |-> cfg.dsn[1],
   environment |-> OrElse(cfg.environment, "production"),
   tracesSampleRate |-> OrElse(cfg.tracesSampleRate, 1),
   enableLogs |-> EnableLogs(cfg)]

\* start() with the `return` after the warning left out
StartCallsNoReturn(cfg) ==
  IF StartSkipsInit(cfg)
  THEN <<"logger.warn", "onDiagnosticEvent", "logger.info", "registerLogTransport",
         "logger.info">>
  ELSE <<"Sentry.init", "logger.info", "onDiagnosticEvent", "logger.info">>
       \o (IF EnableLogs(cfg) THEN <<"registerLogTransport", "logger.info">> ELSE <<>>)

\* start() subscribing to the diagnostic source before it initialises the backend
StartCallsSubscribeFirst(cfg) ==
  IF StartSkipsInit(cfg) THEN <<"logger.warn">>
  ELSE <<"onDiagnosticEvent", "logger.info", "Sentry.init", "logger.info">>
       \o (IF EnableLogs(cfg) THEN <<"registerLogTransport", "logger.info">> ELSE <<>>)

\* the calls start() makes, in order
StartCalls(cfg) ==
  IF StartSkipsInit(cfg) THEN <<"logger.warn">>
  ELSE <<"Sentry.init", "logger.info", "onDiagnosticEvent", "logger.info">>
       \o (IF EnableLogs(cfg) THEN <<"registerLogTransport", "logger.info">> ELSE <<>>)

Has(calls, c) == \E i \in 1..Len(calls) : calls[i] = c

NextHandle == Len(unsubCalls) + 1

Start(cfg) ==
  LET calls == StartCalls(cfg)
      subDiag == Has(calls, "onDiagnosticEvent")
      subLogs == Has(calls, "registerLogTransport")
      hDiag == NextHandle
      hLogs == IF subDiag THEN NextHandle + 1 ELSE NextHandle
  IN  /\ startCalls < MaxStarts
      /\ startCalls' = startCalls + 1
      /\ initCalls' = IF Has(calls, "Sentry.init") THEN initCalls + 1 ELSE initCalls
      /\ unsubDiag' = IF subDiag THEN hDiag ELSE unsubDiag
      /\ unsubLogs' = IF subLogs THEN hLogs ELSE unsubLogs
      /\ diagListeners' = IF subDiag THEN diagListeners \cup {hDiag} ELSE diagListeners
      /\ logListeners' = IF subLogs THEN logListeners \cup {hLogs} ELSE logListeners
      /\ unsubCalls' = unsubCalls \o (IF subDiag THEN <<0>> ELSE <<>>)
                                  \o (IF subLogs THEN <<0>> ELSE <<>>)
      /\ startedSinceStop' = TRUE
      /\ lastOp' = [op |-> "start", calls |-> calls, cfg |-> cfg,
                     init |-> IF Has(calls, "Sentry.init") THEN <<InitOptions(cfg)>> ELSE <<>>]
      /\ lastDelivery' = NoDelivery
      /\ UNCHANGED <<flushCalls, pendingStops, stopResults, delivered, harnessVars>>

\* ------------------------------------------------------ stop
\* the calls stop() makes before it suspends at the await, in order
StopCalls(ud, ul) ==
  (IF ud # 0 THEN <<"unsubDiag">> ELSE <<>>)
  \o (IF ul # 0 THEN <<"unsubLogs">> ELSE <<>>)
  \o <<"Sentry.flush">>

\* stop() leaving the handle in place after calling it
StopKeepsHandle(h) == h

\* unsubDiag = null; unsubLogs = null
StopClears(h) == 0

\* an unsubscribe function run once more
Invoked(counts, h) ==
  IF h = 0 THEN counts ELSE [counts EXCEPT ![h] = @ + 1]

\* stop(), up to `await Sentry.flush(5000)`
StopBegin ==
  LET calls == StopCalls(unsubDiag, unsubLogs)
      doDiag == Has(calls, "unsubDiag")
      doLogs == Has(calls, "unsubLogs")
  IN  /\ Len(flushCalls) < MaxStops
      /\ unsubCalls' = Invoked(Invoked(unsubCalls, IF doDiag THEN unsubDiag ELSE 0),
                               IF doLogs THEN unsubLogs ELSE 0)
      /\ diagListeners' = IF doDiag THEN diagListeners \ {unsubDiag} ELSE diagListeners
      /\ logListeners' = IF doLogs THEN logListeners \ {unsubLogs} ELSE logListeners
      /\ unsubDiag' = StopClears(unsubDiag)
      /\ unsubLogs' = StopClears(unsubLogs)
      /\ flushCalls' = Append(flushCalls, FlushTimeoutMs)
      /\ pendingStops' = pendingStops + 1
      /\ startedSinceStop' = FALSE
      /\ lastOp' = [op |-> "stop", calls |-> calls]
      /\ lastDelivery' = NoDelivery
      /\ UNCHANGED <<startCalls, initCalls, stopResults, delivered, harnessVars>>

\* How the flush promise settles: resolved true, resolved false (the timeout
\* passed) or rejected.
FlushOutcomes == {"flushed", "timedOut", "rejected"}

\* await Sentry.flush(5000) with no .catch
AwaitFlushNoCatch(outcome) == outcome

\* Sentry.flush(5000).catch(() => undefined): what the await yields
AwaitFlush(outcome) == IF outcome = "rejected" THEN "undefined" ELSE outcome

\* how stop() ends once the awaited promise has settled
StopResult(outcome) == IF AwaitFlush(outcome) = "rejected" THEN "threw" ELSE "returned"

\* stop(), from the await to its return
StopResume(outcome) ==
  /\ pendingStops > 0
  /\ pendingStops' = pendingStops - 1
  /\ stopResults' = Append(stopResults, StopResult(outcome))
  /\ lastOp' = [op |-> "stop.return", calls |-> <<>>, outcome |-> outcome]
  /\ UNCHANGED <<unsubDiag, unsubLogs, diagListeners, logListeners, unsubCalls,
                 startCalls, initCalls, flushCalls, startedSinceStop>>
  /\ lastDelivery' = NoDelivery
  /\ UNCHANGED <<delivered, harnessVars>>


\* ------------------------------------------------------ inputs
ModelUsageEvt(ts, durationMs, model, provider, channel, sessionKey, costUsd, usage) ==
  [type |-> "model.usage", ts |-> ts, durationMs |-> durationMs, model |-> model,
   provider |-> provider, channel |-> channel, sessionKey |-> sessionKey,
   costUsd |-> costUsd, usage |-> usage]

MessageEvt(ts, durationMs, outcome, error, sessionKey, chatId, messageId) ==
  [type |-> "message.processed", ts |-> ts, durationMs |-> durationMs,
   channel |-> "telegram", outcome |-> outcome, error |-> error,
   sessionKey |-> sessionKey, chatId |-> chatId, messageId |-> messageId]

WebhookErrorEvt(error) ==
  [type |-> "webhook.error", error |-> error, channel |-> Some("telegram"),
   updateType |-> Some("message")]

SessionStuckEvt(sessionKey, ageMs) ==
  [type |-> "session.stuck", sessionKey |-> sessionKey, ageMs |-> ageMs,
   state |-> Some("processing")]

OtherEvt(type) == [type |-> type]

OptTokens == {Absent, Some(7)}
Usages == [input : OptTokens, output : OptTokens, cacheRead : OptTokens,
           cacheWrite : OptTokens, total : OptTokens]
TsValues == {1000, 2000000000}
OptDurations == {Absent, Some(0), Some(250)}

ModelUsageEvents ==
  {ModelUsageEvt(ts, d, m, p, p, p, c, u) :
     ts \in TsValues, d \in OptDurations,
     m \in {Absent, Some(""), Some("gpt-4o")},
     p \in {Absent, Some("main")}, c \in {Absent, Some(3)},
     u \in {Absent} \cup {Some(x) : x \in Usages}}

MessageEvents ==
  {MessageEvt(ts, d, o, e, k, c, k) :
     ts \in TsValues, d \in OptDurations,
     o \in {"completed", "skipped", "error"},
     e \in {Absent, Some(""), Some("boom")},
     k \in {Absent, Some("main")}, c \in {Absent, Some(42)}}

CaptureEvents ==
  {WebhookErrorEvt(e) : e \in {Absent, Some("bad gateway")}}
  \cup {SessionStuckEvt(k, a) : k \in {Absent, Some("main")}, a \in {Absent, Some(90000)}}

OtherEvents == {OtherEvt(t) : t \in {"queue.lane.depth", "diagnostic.heartbeat"}}

\* every diagnostic event the translator is checked on
DiagInputs == ModelUsageEvents \cup MessageEvents \cup CaptureEvents \cup OtherEvents

\* the diagnostic events the host emits in the lifecycle specification
HostDiagEvents ==
  { ModelUsageEvt(1000, Some(250), Some("gpt-4o"), Absent, Absent, Absent, Absent,
                  Some([input |-> Some(7), output |-> Absent, cacheRead |-> Absent,
                        cacheWrite |-> Absent, total |-> Some(7)])),
    ModelUsageEvt(1000, Absent, Absent, Absent, Absent, Absent, Absent, Absent),
    MessageEvt(1000, Absent, "error", Some("boom"), Some("main"), Absent, Absent),
    OtherEvt("queue.lane.depth") }

StrVal(str) == [type |-> "string", s |-> str]
NumVal(n) == [type |-> "number", n |-> n]
ObjVal == [type |-> "object"]
CircularVal == [type |-> "circular"]
UndefinedVal == [type |-> "undefined"]

LogMeta(logLevelName, name) == [logLevelName |-> logLevelName, name |-> name]
LogObj(meta, props) == [meta |-> meta, props |-> props]
Prop(key, value) == [key |-> key, value |-> value]

\* the log records the host emits in the lifecycle specification
HostLogRecords ==
  { LogObj(Some(LogMeta(Some(<<"W", "A", "R", "N">>), Absent)),
           <<Prop(<<"0">>, StrVal("subsystem-x")), Prop(<<"1">>, StrVal("hello"))>>),
    LogObj(Some(LogMeta(Some(<<"E", "R", "R", "O", "R">>), Some("gateway"))),
           <<Prop(<<"0">>, CircularVal)>>),
    LogObj(Some(LogMeta(Absent, Absent)), <<>>) }

\* level names as the host spells them, letter by letter
LevelNames ==
  { <<"D", "E", "B", "U", "G">>, <<"d", "e", "b", "u", "g">>,
    <<"T", "R", "A", "C", "E">>, <<"T", "r", "a", "c", "e">>,
    <<"W", "A", "R", "N">>, <<"w", "A", "r", "N">>,
    <<"E", "R", "R", "O", "R">>, <<"e", "r", "r", "o", "r">>,
    <<"F", "A", "T", "A", "L">>, <<"F", "a", "t", "a", "l">>,
    <<"I", "N", "F", "O">>, <<"W", "A", "R", "N", "I", "N", "G">>,
    <<"L", "O", "G">>, <<>> }

LogMetas ==
  {Absent} \cup {Some(LogMeta(l, n)) :
                   l \in {Absent} \cup {Some(x) : x \in LevelNames},
                   n \in {Absent, Some("gateway")}}

\* the keys of a record: array indices, a digits-only key that is no array
\* index, and a named property
PropKeys == { <<"0">>, <<"2">>, <<"1", "0">>, <<"0", "1">>, <<"m", "s", "g">> }
PropValues ==
  { StrVal("hello"), StrVal(""), NumVal(42), ObjVal, CircularVal, UndefinedVal }

\* the own properties of a record, in insertion order: no key twice
PropSeqs ==
  UNION { { ps \in [1..n -> {Prop(k, v) : k \in PropKeys, v \in PropValues}] :
              \A i, j \in 1..n : i # j => ps[i].key # ps[j].key } : n \in 0..MaxProps }

\* the log records of the translator specification: every level spelling
\* and logger name over a few records, and every record under two metas
LogInputs ==
  {LogObj(meta, props) : meta \in LogMetas, props \in {ps \in PropSeqs : Len(ps) = 0} \cup
      { <<Prop(<<"0">>, StrVal("subsystem-x")), Prop(<<"2">>, StrVal("hello"))>>,
        <<Prop(<<"0">>, CircularVal)>> }}
  \cup
  {LogObj(meta, props) :
     meta \in {Absent, Some(LogMeta(Some(<<"W", "A", "R", "N">>), Some("gateway")))},
     props \in PropSeqs}

DSN == "https://key@o1.ingest.sentry.io/1"

Configs ==
  { PluginCfg(FALSE, Absent, Absent, Absent, Absent),
    PluginCfg(TRUE, Absent, Some("staging"), Absent, Some(TRUE)),
    PluginCfg(TRUE, Some(""), Absent, Absent, Absent),
    PluginCfg(TRUE, Some(DSN), Absent, Absent, Absent),
    PluginCfg(TRUE, Some(DSN), Some("staging"), Some(0), Some(TRUE)),
    PluginCfg(TRUE, Some(DSN), Absent, Absent, Some(FALSE)) }

Behaviours == {Behaviour(ok, k) : ok \in BOOLEAN, k \in 0..MaxFailAt}
LogBehaviours == {LogBehaviour(has, k) : has \in BOOLEAN, k \in 0..1}

\* the backend behaviours met in the lifecycle specification
HostBehaviours ==
  {Behaviour(TRUE, 0), Behaviour(FALSE, 0), Behaviour(TRUE, 2)}
HostLogBehaviours ==
  {LogBehaviour(TRUE, 0), LogBehaviour(FALSE, 0), LogBehaviour(TRUE, 1)}

\* ------------------------------------------------------ deliveries
(* The host emits one diagnostic event: every subscribed listener, each an  *)
(* instance of the service's handler, is called with it in turn.            *)
EmitDiag(evt, bs) ==
  LET results == [i \in 1..Cardinality(diagListeners) |-> DiagHandler(evt, bs[i])]
  IN  /\ delivered < MaxDeliveries
      /\ delivered' = delivered + 1
      /\ lastDelivery' = [source |-> "diag", evt |-> evt, bs |-> bs, results |-> results,
                          afterFault |-> Faulted(lastDelivery, "diag")]
      /\ lastOp' = [op |-> "diag", calls |-> <<>>]
      /\ UNCHANGED <<unsubDiag, unsubLogs, diagListeners, logListeners, unsubCalls,
                     startCalls, initCalls, flushCalls, pendingStops,
                     stopResults, startedSinceStop, harnessVars>>

\* The host emits one log record to every registered log transport.
EmitLog(logObj, bs) ==
  LET results == [i \in 1..Cardinality(logListeners) |-> LogHandler(logObj, bs[i])]
  IN  /\ delivered < MaxDeliveries
      /\ delivered' = delivered + 1
      /\ lastDelivery' = [source |-> "log", evt |-> logObj, bs |-> bs, results |-> results,
                          afterFault |-> Faulted(lastDelivery, "log")]
      /\ lastOp' = [op |-> "log", calls |-> <<>>]
      /\ UNCHANGED <<unsubDiag, unsubLogs, diagListeners, logListeners, unsubCalls,
                     startCalls, initCalls, flushCalls, pendingStops,
                     stopResults, startedSinceStop, harnessVars>>

\* ------------------------------------------------------ the service
NoInput == [type |-> "none"]
NoOutput == [translated |-> FALSE]

LifecycleInit ==
  /\ unsubDiag = 0
  /\ unsubLogs = 0
  /\ diagListeners = {}
  /\ logListeners = {}
  /\ unsubCalls = <<>>
  /\ startCalls = 0
  /\ initCalls = 0
  /\ flushCalls = <<>>
  /\ pendingStops = 0
  /\ stopResults = <<>>
  /\ startedSinceStop = FALSE
  /\ lastOp = [op |-> "none", calls |-> <<>>]
  /\ delivered = 0
  /\ lastDelivery = NoDelivery

Init == LifecycleInit /\ tIn = NoInput /\ tOut = NoOutput

Next ==
  \/ \E cfg \in Configs : Start(cfg)
  \/ StopBegin
  \/ \E outcome \in FlushOutcomes : StopResume(outcome)
  \/ \E evt \in HostDiagEvents :
       \E bs \in [1..Cardinality(diagListeners) -> HostBehaviours] : EmitDiag(evt, bs)
  \/ \E logObj \in HostLogRecords :
       \E bs \in [1..Cardinality(logListeners) -> HostLogBehaviours] : EmitLog(logObj, bs)

Spec == Init /\ [][Next]_vars

\* ------------------------------------------------------ the translators alone
(* The diagnostic translator applied to one event of DiagInputs under one   *)
(* backend behaviour.                                                       *)
TranslateDiag(b) ==
  /\ tIn.type # "none"
  /\ ~tOut.translated
  /\ tOut' = [translated |-> TRUE, b |-> b, result |-> handleDiagnosticEvent(tIn, b)]
  /\ UNCHANGED <<tIn, lifecycleVars, deliveryVars>>

TranslateInit == LifecycleInit /\ tIn \in DiagInputs /\ tOut = NoOutput

TranslateNext == \E b \in Behaviours : TranslateDiag(b)

TranslateSpec == TranslateInit /\ [][TranslateNext]_vars

(* The log translator applied to one record of LogInputs under one backend  *)
(* behaviour.                                                               *)
TranslateLog(b) ==
  /\ "meta" \in DOMAIN tIn
  /\ ~tOut.translated
  /\ tOut' = [translated |-> TRUE, b |-> b, result |-> forwardLog(tIn, b)]
  /\ UNCHANGED <<tIn, lifecycleVars, deliveryVars>>

LogTranslateInit == LifecycleInit /\ tIn \in LogInputs /\ tOut = NoOutput

LogTranslateNext == \E b \in LogBehaviours : TranslateLog(b)

LogTranslateSpec == LogTranslateInit /\ [][LogTranslateNext]_vars


\* ====================================================== properties
\* the handles the service ever obtained from an event source
Handles == DOMAIN unsubCalls

\* a step of start(), of stop() up to its await
StartStep == startCalls' = startCalls + 1
StopStep == Len(flushCalls') = Len(flushCalls) + 1

\* the configuration has no dsn
NoDsn(cfg) == ~cfg.hasConfig \/ cfg.dsn = <<>>

\* what a start() step does when the configuration has no dsn
C1_NoDsnStartStep ==
  (StartStep /\ NoDsn(lastOp'.cfg)) =>
     /\ initCalls' = initCalls
     /\ diagListeners' = diagListeners /\ logListeners' = logListeners
     /\ unsubDiag' = unsubDiag /\ unsubLogs' = unsubLogs
     /\ Handles' = Handles
     /\ lastOp'.calls = <<"logger.warn">>
     /\ lastOp'.init = <<>>
\* the service while no start() has found a dsn
C1_InertUntilInit ==
  initCalls = 0 =>
     /\ diagListeners = {} /\ logListeners = {}
     /\ lastDelivery.results = <<>>
(* C1: start() with a configuration that has no dsn calls no backend init,  *)
(* subscribes to neither source, logs exactly one warning to the host       *)
(* logger and nothing else, and returns; and as long as no start() has      *)
(* found a dsn, nothing is subscribed, so an emitted diagnostic event or    *)
(* log record reaches no handler and yields no backend operation.           *)
C1_NoDsnStartIsInert == [][C1_NoDsnStartStep]_vars /\ []C1_InertUntilInit
\* an event or record was emitted after start() ran without a dsn
C1_Witness ==
  /\ startCalls >= 1 /\ initCalls = 0
  /\ lastDelivery.source \in {"diag", "log"}


\* the results of the last emission, when it was on the given source
ResultsOn(source) == IF lastDelivery.source = source THEN lastDelivery.results ELSE <<>>

\* the event is of a kind the translator handles and carries what its type requires
WellFormed(evt) ==
  \/ evt.type = "message.processed"
  \/ evt.type = "model.usage" /\ evt.usage # <<>>

(* C2: a fault thrown while translating a diagnostic event never escapes    *)
(* the handler to the event source, and the event emitted next is still     *)
(* delivered to every subscribed handler and translated: when no backend    *)
(* call throws during it, a well-formed event does not fault and yields its *)
(* backend calls, whatever happened to the events before it.                *)
C2_DiagFaultIsContained ==
  LET results == ResultsOn("diag")
  IN  /\ \A i \in DOMAIN results : ~results[i].escaped
      /\ lastDelivery.source = "diag" => Len(results) = Cardinality(diagListeners)
      /\ \A i \in DOMAIN results :
           (WellFormed(lastDelivery.evt) /\ lastDelivery.bs[i].failAt = 0)
             => /\ ~results[i].faulted
                /\ results[i].calls # <<>>
                /\ results[i].calls[1].fn = "startInactiveSpan"
\* an event is translated in full right after an event whose translation faulted
C2_Witness ==
  /\ lastDelivery.source = "diag" /\ lastDelivery.afterFault
  /\ \E i \in DOMAIN lastDelivery.results :
       /\ ~lastDelivery.results[i].faulted
       /\ Len(lastDelivery.results[i].calls) >= 2

Serializable(logObj) ==
  \A i \in DOMAIN logObj.props : logObj.props[i].value.type # "circular"

(* C4: a fault in translating a log record is swallowed without any call to *)
(* the host logger and never escapes to the log source; the log handler     *)
(* never calls the host logger at all; and the record emitted next is still *)
(* forwarded: with the backend logger there and no fault of its own, it     *)
(* yields exactly one structured-log call.                                  *)
C4_LogFaultIsSilent ==
  LET results == ResultsOn("log")
  IN  /\ \A i \in DOMAIN results : results[i].logged = <<>> /\ ~results[i].escaped
      /\ lastDelivery.source = "log" => Len(results) = Cardinality(logListeners)
      /\ \A i \in DOMAIN results :
           results[i].faulted => results[i].calls = <<>>
      /\ \A i \in DOMAIN results :
           (Serializable(lastDelivery.evt) /\ lastDelivery.bs[i].failAt = 0)
             => /\ ~results[i].faulted
                /\ Len(results[i].calls) = (IF lastDelivery.bs[i].hasLogger THEN 1 ELSE 0)
\* a record is forwarded right after a record whose translation faulted
C4_Witness ==
  /\ lastDelivery.source = "log" /\ lastDelivery.afterFault
  /\ \E i \in DOMAIN lastDelivery.results :
       /\ ~lastDelivery.results[i].faulted
       /\ Len(lastDelivery.results[i].calls) = 1


\* every unsubscribe function ran at most once, and every stop() returned
C5_UnsubscribedAtMostOnce ==
  /\ \A h \in Handles : unsubCalls[h] <= 1
  /\ \A i \in DOMAIN stopResults : stopResults[i] = "returned"
\* what a stop() step does when no handle is held
C5_EmptyStopStep ==
  (StopStep /\ unsubDiag = 0 /\ unsubLogs = 0) =>
     /\ unsubCalls' = unsubCalls
     /\ diagListeners' = diagListeners /\ logListeners' = logListeners
     /\ unsubDiag' = 0 /\ unsubLogs' = 0
     /\ lastOp'.calls = <<"Sentry.flush">>
(* C5: stop() is idempotent over the subscription handles: no unsubscribe   *)
(* function obtained from an event source is ever invoked more than once,   *)
(* whatever the sequence of start() and stop() calls; a stop() that finds   *)
(* nothing subscribed (none started, or stopped already) invokes no         *)
(* unsubscribe function and changes no subscription; and no stop() throws.  *)
C5_StopIsIdempotent == []C5_UnsubscribedAtMostOnce /\ [][C5_EmptyStopStep]_vars
\* stop() was called twice in a row after a start() that subscribed
C5_Witness ==
  /\ Len(flushCalls) >= 2 /\ lastOp.op = "stop" /\ lastOp.calls = <<"Sentry.flush">>
  /\ \E h \in Handles : unsubCalls[h] = 1

\* the calls of a stop() step, in order, and their effect
C6_StopStepOrder ==
  StopStep =>
     /\ lastOp'.op = "stop"
     /\ lastOp'.calls = (IF unsubDiag # 0 THEN <<"unsubDiag">> ELSE <<>>)
                        \o (IF unsubLogs # 0 THEN <<"unsubLogs">> ELSE <<>>)
                        \o <<"Sentry.flush">>
     /\ flushCalls' = Append(flushCalls, 5000)
     /\ (unsubDiag # 0 => unsubDiag \notin diagListeners')
     /\ (unsubLogs # 0 => unsubLogs \notin logListeners')
\* every finished stop() returned; every flush had the 5000 ms timeout
C6_StopNeverThrows ==
  /\ \A i \in DOMAIN stopResults : stopResults[i] = "returned"
  /\ \A i \in DOMAIN flushCalls : flushCalls[i] = 5000
  /\ pendingStops = Len(flushCalls) - Len(stopResults)
(* C6: stop() releases the diagnostic subscription, then the log            *)
(* subscription, and only then flushes the backend, once, with a timeout of *)
(* 5000 ms; and whether the flush resolves, times out or rejects, stop()    *)
(* returns and does not throw.                                              *)
C6_StopOrderAndFlush == [][C6_StopStepOrder]_vars /\ []C6_StopNeverThrows
\* a stop() that released both subscriptions returned after its flush rejected
C6_Witness ==
  /\ lastOp.op = "stop.return" /\ lastOp.outcome = "rejected"
  /\ \E h \in Handles, g \in Handles : h # g /\ unsubCalls[h] = 1 /\ unsubCalls[g] = 1

(* C7, as stated: once stop() has returned, with no start() called since    *)
(* that stop() was called, no subscription of the service is active on      *)
(* either source, whatever start() and stop() calls came before; an event   *)
(* or record emitted then reaches no handler.                               *)
C7_NoSubscriptionAfterStop ==
  (stopResults # <<>> /\ pendingStops = 0 /\ ~startedSinceStop) =>
     /\ diagListeners = {} /\ logListeners = {}
     /\ lastDelivery.results = <<>>


\* ------------------------------------------ properties of the translators
\* the calls of the translation under check, and those to one backend function
TCalls == IF tOut.translated THEN tOut.result.calls ELSE <<>>
TCallsTo(fn) == LET isFn(c) == c.fn = fn IN SelectSeq(TCalls, isFn)

\* the backend returned a span handle and no backend call threw
BackendSound == tOut.translated /\ tOut.b.spanOk /\ tOut.b.failAt = 0

\* the duration the span of the event under check is to have
ExpectedDuration ==
  IF tIn.durationMs # <<>> THEN tIn.durationMs[1]
  ELSE IF tIn.type = "model.usage" THEN 100 ELSE 50

(* C8: for every model.usage and message.processed event, the span started  *)
(* starts at ts minus duration and carries duration_ms = duration, where    *)
(* duration is durationMs when present (0 included) and otherwise 100 ms    *)
(* for model.usage and 50 ms for message.processed; and the span is ended   *)
(* at the event's ts.                                                       *)
C8_SpanTiming ==
  (tOut.translated /\ tIn.type \in {"model.usage", "message.processed"}) =>
     /\ \A i \in DOMAIN TCalls :
          /\ TCalls[i].fn = "startInactiveSpan" =>
               /\ TCalls[i].startTime = tIn.ts - ExpectedDuration
               /\ TCalls[i].attributes["openclaw.duration_ms"] = ExpectedDuration
          /\ TCalls[i].fn = "span.end" => TCalls[i].endTime = tIn.ts
     /\ (BackendSound /\ (tIn.type = "model.usage" => tIn.usage # <<>>)) =>
          /\ Len(TCallsTo("startInactiveSpan")) = 1
          /\ Len(TCallsTo("span.end")) = 1
\* a message.processed event with a duration of 0 gave a span that was ended
C8_Witness ==
  /\ tOut.translated /\ tIn.type = "message.processed" /\ tIn.durationMs = <<0>>
  /\ Len(TCallsTo("span.end")) = 1

\* a message.processed event with outcome "error" and an error text, on a sound backend
ErrorWithText ==
  /\ BackendSound /\ tIn.type = "message.processed"
  /\ tIn.outcome = "error" /\ tIn.error # <<>>

\* the span status and the capture the claim describes for the error text e
StatusAndCaptureFor(e) ==
  /\ TCallsTo("startInactiveSpan") # <<>>
  /\ TCallsTo("span.setStatus") = <<[fn |-> "span.setStatus", code |-> 2, message |-> e]>>
  /\ TCallsTo("captureMessage") =
       <<[fn |-> "captureMessage", text |-> "Message processing error: " \o e,
          level |-> "error",
          tags |-> [channel |-> <<tIn.channel>>, sessionKey |-> tIn.sessionKey]]>>

(* C9, as stated: a message.processed event with outcome "error" and an     *)
(* error text e yields both a span with error status message e and one      *)
(* capture "Message processing error: " + e at severity error, tagged with  *)
(* the event's channel and sessionKey.                                      *)
C9_ErrorTextGivesStatusAndCapture ==
  ErrorWithText => StatusAndCaptureFor(tIn.error[1])

(* C9, amended: a message.processed event with outcome "error" and a       *)
(* non-empty error text e yields both a span with error status message e    *)
(* and one capture "Message processing error: " + e at severity error,      *)
(* tagged with the event's channel and sessionKey; an empty error text sets *)
(* the span status with an empty message and yields no capture.             *)
C9_NonEmptyErrorGivesStatusAndCapture ==
  /\ (ErrorWithText /\ tIn.error[1] # "") => StatusAndCaptureFor(tIn.error[1])
  /\ (ErrorWithText /\ tIn.error[1] = "") =>
        /\ TCallsTo("span.setStatus") = <<[fn |-> "span.setStatus", code |-> 2, message |-> ""]>>
        /\ TCallsTo("captureMessage") = <<>>
\* an error outcome with the text "boom" was translated on a sound backend
C9_Witness == ErrorWithText /\ tIn.error = <<"boom">>

(* C10: a message.processed event with outcome "error" and no error field   *)
(* yields a span status message "unknown error" and no capture; an event    *)
(* whose outcome is not "error" sets no span status and yields no capture.  *)
C10_NoErrorTextNoCapture ==
  (tOut.translated /\ tIn.type = "message.processed") =>
     /\ (tIn.outcome = "error" /\ tIn.error = <<>>) =>
          /\ TCallsTo("captureMessage") = <<>>
          /\ BackendSound =>
               TCallsTo("span.setStatus") =
                 <<[fn |-> "span.setStatus", code |-> 2, message |-> "unknown error"]>>
     /\ tIn.outcome # "error" =>
          /\ TCallsTo("span.setStatus") = <<>>
          /\ TCallsTo("captureMessage") = <<>>
\* an error outcome without error field was translated on a sound backend
C10_Witness ==
  /\ BackendSound /\ tIn.type = "message.processed"
  /\ tIn.outcome = "error" /\ tIn.error = <<>>
  /\ Len(TCallsTo("span.end")) = 1

\* ------------------------------------------ properties, continued
\* the event kinds the translator handles
HandledKinds == {"model.usage", "message.processed", "webhook.error", "session.stuck"}

\* a step in which the host emits a diagnostic event
DiagStep == delivered' = delivered + 1 /\ lastDelivery'.source = "diag"

\* what the emission of an event of no handled kind does
C11_UnknownKindStep ==
  (DiagStep /\ lastDelivery'.evt.type \notin HandledKinds) =>
     /\ \A i \in DOMAIN lastDelivery'.results :
          /\ lastDelivery'.results[i].calls = <<>>
          /\ ~lastDelivery'.results[i].faulted
          /\ ~lastDelivery'.results[i].escaped
          /\ lastDelivery'.results[i].logged = <<>>
     /\ Len(lastDelivery'.results) = Cardinality(diagListeners)
     /\ unsubDiag' = unsubDiag /\ unsubLogs' = unsubLogs
     /\ diagListeners' = diagListeners /\ logListeners' = logListeners
     /\ unsubCalls' = unsubCalls /\ initCalls' = initCalls
(* C11: a diagnostic event whose kind is none of model.usage,               *)
(* message.processed, webhook.error, session.stuck yields no backend call   *)
(* in any handler, whatever the backend would do, raises no error, and      *)
(* leaves the service's handles and subscriptions as they were.             *)
C11_UnknownKindIsIgnored == [][C11_UnknownKindStep]_vars
\* a subscribed handler received an event of no handled kind
C11_Witness ==
  /\ lastDelivery.source = "diag" /\ lastDelivery.evt.type = "queue.lane.depth"
  /\ lastDelivery.results # <<>>

\* ------------------------------------------ the log translator alone
\* the level name of the translated record, as the host spelled it
LevelNameIn == IF tIn.meta = <<>> THEN <<>> ELSE tIn.meta[1].logLevelName

\* the method the level name selects, spelling by spelling
RoutedMethod ==
  LET name == LevelNameIn
  IN  CASE name \in {<<x>> : x \in {<<"D", "E", "B", "U", "G">>, <<"d", "e", "b", "u", "g">>,
                                     <<"T", "R", "A", "C", "E">>, <<"T", "r", "a", "c", "e">>}}
             -> "logger.debug"
        [] name \in {<<x>> : x \in {<<"W", "A", "R", "N">>, <<"w", "A", "r", "N">>}}
             -> "logger.warn"
        [] name \in {<<x>> : x \in {<<"E", "R", "R", "O", "R">>, <<"e", "r", "r", "o", "r">>,
                                     <<"F", "A", "T", "A", "L">>, <<"F", "a", "t", "a", "l">>}}
             -> "logger.error"
        [] OTHER -> "logger.info"

\* the backend has a logger and none of its calls throws
LogBackendSound == tOut.b.hasLogger /\ tOut.b.failAt = 0

Positional == {i \in DOMAIN tIn.props : IsAllDigits(tIn.props[i].key)}
GreatestPositional ==
  CHOOSE i \in Positional :
    \A j \in Positional : KeyNumber(tIn.props[j].key) <= KeyNumber(tIn.props[i].key)
SmallestPositional ==
  CHOOSE i \in Positional :
    \A j \in Positional : KeyNumber(tIn.props[i].key) <= KeyNumber(tIn.props[j].key)

\* the values that are text or have a JSON text
HasText(v) == v.type \in {"string", "number", "object"}
TextOf(v) == IF v.type = "string" THEN v.s ELSE JsonStringify(v)[1]

\* the message and the attributes of the call made for the record
LogCallMade == tOut.translated /\ tOut.result.calls # <<>>
CallMessage == tOut.result.calls[1].message
CallAttrs == tOut.result.calls[1].attrs
HasSubsystem == "openclaw.subsystem" \in DOMAIN CallAttrs

\* C13 as stated: with two or more positional values the message is the
\* value of the greatest numeric key, stringified when not text, and the
\* subsystem attribute is the value of the smallest numeric key; with one
\* positional value the message is that value and there is no subsystem.
C13_PositionalValues ==
  LogCallMade =>
    /\ Cardinality(Positional) >= 2 =>
         /\ HasText(tIn.props[GreatestPositional].value) =>
              CallMessage = TextOf(tIn.props[GreatestPositional].value)
         /\ HasSubsystem
         /\ CallAttrs["openclaw.subsystem"] = ValueToString(tIn.props[SmallestPositional].value)
    /\ Cardinality(Positional) = 1 =>
         /\ HasText(tIn.props[GreatestPositional].value) =>
              CallMessage = TextOf(tIn.props[GreatestPositional].value)
         /\ ~HasSubsystem

\* the message a positional value gives: its text, "log" when it has no text
\* or an empty one
MessageOrFallback(v) == IF HasText(v) /\ TextOf(v) # "" THEN TextOf(v) ELSE "log"

(* C13: the positional values of a record are the entries whose key is all  *)
(* digits, taken by the numeric value of the key whatever the insertion     *)
(* order. With two or more, the message is the value of the greatest key,   *)
(* stringified when not text, or "log" when that text is empty or there is  *)
(* none, and the subsystem attribute is the string form of the value of the *)
(* smallest key, left out when that string is empty. With exactly one, the  *)
(* message is that value, with the same fallback, and no subsystem is set.  *)
C13_PositionalValuesOrFallback ==
  LogCallMade =>
    /\ Cardinality(Positional) >= 2 =>
         /\ CallMessage = MessageOrFallback(tIn.props[GreatestPositional].value)
         /\ HasSubsystem <=> ValueToString(tIn.props[SmallestPositional].value) # ""
         /\ HasSubsystem =>
              CallAttrs["openclaw.subsystem"] = ValueToString(tIn.props[SmallestPositional].value)
    /\ Cardinality(Positional) = 1 =>
         /\ CallMessage = MessageOrFallback(tIn.props[GreatestPositional].value)
         /\ ~HasSubsystem
\* key "10" was inserted before key "2": the message is the value of "10",
\* the subsystem the string form of the value of "2"
C13_Witness ==
  /\ LogCallMade /\ Len(tIn.props) = 2
  /\ tIn.props[1] = Prop(<<"1", "0">>, StrVal("hello"))
  /\ tIn.props[2] = Prop(<<"2">>, NumVal(42))
  /\ CallMessage = "hello" /\ HasSubsystem /\ CallAttrs["openclaw.subsystem"] = "42"

\* the logger name of the record, "openclaw" when it names none
LoggerNameIn ==
  IF tIn.meta = <<>> \/ tIn.meta[1].name = <<>> THEN "openclaw" ELSE tIn.meta[1].name[1]

\* no positional value of the record gives a non-empty message
NoMessageIn ==
  \/ Positional = {}
  \/ ~HasText(tIn.props[GreatestPositional].value)
  \/ TextOf(tIn.props[GreatestPositional].value) = ""

\* what every call made for a record carries
CallIsNamedAndWorded ==
  \A i \in DOMAIN tOut.result.calls :
    /\ tOut.result.calls[i].message # ""
    /\ NoMessageIn => tOut.result.calls[i].message = "log"
    /\ "openclaw.logger" \in DOMAIN tOut.result.calls[i].attrs
    /\ tOut.result.calls[i].attrs["openclaw.logger"] = LoggerNameIn

\* C14 as stated: every record gives exactly one structured-log call when
\* the backend has a logger, none when it has not; the message is never
\* empty and the attributes carry the logger name.
C14_OneCallPerRecord ==
  tOut.translated =>
    /\ LogBackendSound => Len(tOut.result.calls) = 1
    /\ ~tOut.b.hasLogger => tOut.result.calls = <<>>
    /\ CallIsNamedAndWorded

\* the value the message is taken from can be serialised
MessageSerialisable ==
  Positional = {} \/ tIn.props[GreatestPositional].value.type # "circular"

(* C14: a record whose message value can be serialised gives exactly one    *)
(* structured-log call when the backend has a logger and none when it has   *)
(* not; a record whose message value cannot be serialised faults and gives  *)
(* no call. The message of a call is never empty, being "log" whenever no   *)
(* positional value gives a non-empty message, and its attributes always    *)
(* carry the logger name, _meta.name or "openclaw".                         *)
C14_OneCallUnlessFault ==
  tOut.translated =>
    /\ (LogBackendSound /\ MessageSerialisable) =>
         Len(tOut.result.calls) = 1 /\ ~tOut.result.threw
    /\ ~MessageSerialisable => tOut.result.calls = <<>> /\ tOut.result.threw
    /\ ~tOut.b.hasLogger => tOut.result.calls = <<>>
    /\ CallIsNamedAndWorded
\* a record with no positional value and no _meta gave one call, "log"
C14_Witness ==
  /\ tOut.translated /\ Positional = {} /\ tIn.meta = <<>> /\ tIn.props # <<>>
  /\ Len(tOut.result.calls) = 1
  /\ tOut.result.calls[1].message = "log"
  /\ tOut.result.calls[1].attrs["openclaw.logger"] = "openclaw"

\* ------------------------------------------ the lifecycle, continued
\* the configuration has a dsn start() accepts
HasDsn(cfg) == cfg.hasConfig /\ cfg.dsn # <<>> /\ cfg.dsn[1] # ""

\* a step in which the host emits a log record
LogStep == delivered' = delivered + 1 /\ lastDelivery'.source = "log"

\* what start() with a dsn subscribes to, and that nothing else subscribes
C15_Step ==
  /\ (StartStep /\ HasDsn(lastOp'.cfg)) =>
       /\ \E h \in diagListeners' \ diagListeners : unsubDiag' = h
       /\ lastOp'.cfg.enableLogs # <<FALSE>> =>
            /\ \E h \in logListeners' \ logListeners : unsubLogs' = h
            /\ lastOp'.init[1].enableLogs
       /\ lastOp'.cfg.enableLogs = <<FALSE>> =>
            /\ logListeners' = logListeners /\ unsubLogs' = unsubLogs
            /\ ~lastOp'.init[1].enableLogs
  /\ ~(StartStep /\ HasDsn(lastOp'.cfg) /\ lastOp'.cfg.enableLogs # <<FALSE>>) =>
       logListeners' \subseteq logListeners
  /\ LogStep => Len(lastDelivery'.results) = Cardinality(logListeners)
(* C15: start() with a dsn subscribes to the log source exactly when        *)
(* enableLogs is not explicitly false, an absent enableLogs counting as     *)
(* true; with enableLogs false it still subscribes to the diagnostic        *)
(* source and leaves the log source alone. Nothing but such a start() adds  *)
(* a log subscription and a log record reaches only the subscribed          *)
(* transports, so a service never started with logs enabled makes no        *)
(* structured-log call.                                                     *)
C15_LogsOnlyWhenEnabled ==
  /\ [][C15_Step]_vars
  /\ [](logListeners = {} /\ lastDelivery.source = "log" => lastDelivery.results = <<>>)
\* started with enableLogs false: a log record is emitted and reaches no
\* handler, while the diagnostic source is subscribed
C15_Witness ==
  /\ lastDelivery.source = "log" /\ lastDelivery.results = <<>>
  /\ initCalls >= 1 /\ logListeners = {} /\ diagListeners # {} /\ unsubLogs = 0

\* ------------------------------------------ the diagnostic translator, continued
\* a model.usage event that carries its usage record was translated
ModelUsageTranslated ==
  tOut.translated /\ tIn.type = "model.usage" /\ tIn.usage # <<>>

\* attribute key of the span is the value of the optional field, or the default
AttrIs(key, field, default) ==
  /\ key \in DOMAIN TCalls[1].attributes
  /\ TCalls[1].attributes[key] = (IF field = <<>> THEN default ELSE field[1])

(* C16: for a model.usage event, every optional field that is absent gives  *)
(* its default as the attribute value, never a missing attribute and never  *)
(* a thrown error: 0 for the counts input, output, cacheRead, cacheWrite,   *)
(* total and for costUsd, "unknown" for provider, model, channel and        *)
(* sessionKey; a field that is present gives its own value.                 *)
C16_AbsentFieldsDefault ==
  ModelUsageTranslated =>
    /\ tOut.result.threw => tOut.b.failAt # 0
    /\ tOut.b.failAt # 1 => TCalls # <<>>
    /\ TCalls # <<>> =>
         /\ TCalls[1].fn = "startInactiveSpan"
         /\ AttrIs("gen_ai.usage.input_tokens", tIn.usage[1].input, 0)
         /\ AttrIs("gen_ai.usage.output_tokens", tIn.usage[1].output, 0)
         /\ AttrIs("openclaw.tokens.cache_read", tIn.usage[1].cacheRead, 0)
         /\ AttrIs("openclaw.tokens.cache_write", tIn.usage[1].cacheWrite, 0)
         /\ AttrIs("openclaw.tokens.total", tIn.usage[1].total, 0)
         /\ AttrIs("openclaw.cost_usd", tIn.costUsd, 0)
         /\ AttrIs("gen_ai.system", tIn.provider, "unknown")
         /\ AttrIs("gen_ai.request.model", tIn.model, "unknown")
         /\ AttrIs("openclaw.channel", tIn.channel, "unknown")
         /\ AttrIs("openclaw.session_key", tIn.sessionKey, "unknown")
\* an event with every optional field absent but the input count gave a
\* span with the defaults
C16_Witness ==
  /\ ModelUsageTranslated /\ ~tOut.result.threw /\ TCalls # <<>>
  /\ tIn.provider = <<>> /\ tIn.model = <<>> /\ tIn.costUsd = <<>> /\ tIn.durationMs = <<>>
  /\ tIn.usage[1] = [input |-> <<7>>, output |-> <<>>, cacheRead |-> <<>>,
                     cacheWrite |-> <<>>, total |-> <<>>]
  /\ TCalls[1].attributes["openclaw.tokens.total"] = 0
  /\ TCalls[1].attributes["gen_ai.system"] = "unknown"

\* a message.processed event with outcome "error" and a non-empty error
\* text was translated and no backend call threw
ErrorTextTranslated ==
  /\ tOut.translated /\ tOut.b.failAt = 0 /\ tIn.type = "message.processed"
  /\ tIn.outcome = "error" /\ tIn.error # <<>> /\ tIn.error[1] # ""

(* C17: for a message.processed event with outcome "error" and an error     *)
(* text, the capture "Message processing error: " + text is emitted whether *)
(* the backend's span start returned a span handle or returned none.        *)
C17_CaptureWhetherSpanOrNone ==
  ErrorTextTranslated =>
    \E i \in DOMAIN TCalls :
      /\ TCalls[i].fn = "captureMessage"
      /\ TCalls[i].text = "Message processing error: " \o tIn.error[1]

(* C18: whatever start() and stop() calls were made on the service, two     *)
(* start() calls in a row included, it holds at most one subscription on    *)
(* the diagnostic source and at most one on the log source, so an emitted   *)
(* event or record is translated at most once.                              *)
C18_AtMostOneSubscription ==
  /\ Cardinality(diagListeners) <= 1
  /\ Cardinality(logListeners) <= 1
  /\ Len(lastDelivery.results) <= 1

\* a span event was translated and the backend returned a span handle
SpanObtained ==
  /\ tOut.translated /\ tIn.type \in {"model.usage", "message.processed"}
  /\ tOut.b.spanOk /\ TCallsTo("startInactiveSpan") # <<>>

\* the position of span.end among the backend calls of the event
EndIndex ==
  IF tIn.type = "message.processed" /\ tIn.outcome = "error"
  THEN (IF tIn.error # <<>> /\ tIn.error[1] # "" THEN 4 ELSE 3)
  ELSE 2

(* C19: every span handle obtained while handling a model.usage or          *)
(* message.processed event is ended exactly once, with the event's ts, as   *)
(* the last backend call of the handler, after the status and the capture   *)
(* of an error outcome; this also when a backend call made between the      *)
(* span's start and its end fails. Only a failure of the end call itself is *)
(* left aside.                                                              *)
C19_SpanAlwaysEnded ==
  (SpanObtained /\ tOut.b.failAt # EndIndex) =>
    /\ TCallsTo("span.end") = <<[fn |-> "span.end", endTime |-> tIn.ts]>>
    /\ TCalls[Len(TCalls)].fn = "span.end"

\* ------------------------------------------ the lifecycle, continued
\* the position of the first call to fn among calls, 0 when there is none
FirstCall(calls, fn) ==
  IF \E i \in DOMAIN calls : calls[i] = fn
  THEN CHOOSE i \in DOMAIN calls : calls[i] = fn /\ \A j \in 1..(i - 1) : calls[j] # fn
  ELSE 0

\* within start(), init comes before the diagnostic subscription and that
\* before the log subscription
C20_StartStep ==
  StartStep =>
    LET calls == lastOp'.calls
        init == FirstCall(calls, "Sentry.init")
        diag == FirstCall(calls, "onDiagnosticEvent")
        logs == FirstCall(calls, "registerLogTransport")
    IN  /\ diag # 0 => (init # 0 /\ init < diag)
        /\ logs # 0 => (diag # 0 /\ diag < logs)
        /\ init # 0 => HasDsn(lastOp'.cfg)
        /\ init # 0 <=> initCalls' = initCalls + 1

\* a handler is subscribed, or made a backend call, only on an initialised backend
C20_HandlersAfterInit ==
  /\ (diagListeners # {} \/ logListeners # {}) => initCalls >= 1
  /\ (\E i \in DOMAIN lastDelivery.results : lastDelivery.results[i].calls # <<>>)
        => initCalls >= 1
(* C20: a span start, a message capture or a structured-log call is made    *)
(* only after a start() that found a dsn has called the backend's init:     *)
(* within start() the init call comes before the diagnostic subscription    *)
(* and that before the log subscription, so no handler runs against an      *)
(* uninitialised backend.                                                   *)
C20_InitBeforeHandlers == [][C20_StartStep]_vars /\ []C20_HandlersAfterInit
\* a log handler made a structured-log call, after init
C20_Witness ==
  /\ lastDelivery.source = "log" /\ initCalls >= 1
  /\ \E i \in DOMAIN lastDelivery.results :
       /\ lastDelivery.results[i].calls # <<>>
       /\ lastDelivery.results[i].calls[1].fn = "logger.warn"

====
